---- MODULE Spec2Model ----
(***************************************************************************)
(* Model of src/main.py: a FastAPI service that keeps a waitlist, a list   *)
(* of enrollments and three counters in one JSON file (data.json).         *)
(*                                                                         *)
(* Every route handler reads the whole file (read_db), changes the parsed  *)
(* document in memory and rewrites the whole file (write_db).  A handler   *)
(* is modelled in two steps: Load (its read_db call, which may repair the  *)
(* file) and the handler's own action (everything after read_db, up to     *)
(* and including write_db and the response).  Handlers are coroutines      *)
(* ("async def") that never await, so the event loop runs one handler      *)
(* from its first statement to its last before it starts another: MayRun.  *)
(*                                                                         *)
(* Clients send one request at a time (Spec), the same request twice in a *)
(* row (SpecTwice) or two requests at the same time (SpecPair); the event  *)
(* loop dispatches the requests in flight in any order.  SpecEnv adds a    *)
(* disk that refuses writes and a data.json that holds foreign JSON or     *)
(* may not be read.                                                        *)
(***************************************************************************)
EXTENDS Integers, Sequences, FiniteSets, TLC

\* ------------------------------------------------------------------ bounds
\* A request that draws uuid4 values is sent only while fewer than MaxIds were drawn.
MaxIds == 2
\* datetime.now() ranges over 0..MaxClock.
MaxClock == 1
\* A page view is requested only while page_views is below MaxViews.
MaxViews == 1

Slots == {"r1", "r2"}          \* requests in flight at the same time
\* The (email, name) pairs clients send to POST /api/waitlist.
JoinInputs == {<<"a@x.com", "A">>, <<"a@x.com", "B">>, <<"A@x.com", "A">>,
               <<"student@school.edu", "A">>}
Ids == 1..MaxIds
Clock == 0..MaxClock

\* ------------------------------------------------------- the backing file
\* data.json is missing, empty (0 bytes), not parseable as JSON, or holds a
\* JSON value; or the process has no permission to read it.
Missing == [kind |-> "missing"]
Empty == [kind |-> "empty"]
Garbage == [kind |-> "garbage"]
Unreadable == [kind |-> "unreadable"]
Json(v) == [kind |-> "json", value |-> v]

\* A JSON value that parses but is no Document: the object {"other": 0}.
BadShape == [other |-> 0]

\* The skeleton document init_db builds (lines 57-66, 83-92, 98-107).
EmptyDocument(now) ==
    [waitlist |-> <<>>,
     enrollments |-> <<>>,
     analytics |-> [page_views |-> 0, waitlist_count |-> 0,
                    enrollment_count |-> 0, last_updated |-> now]]

\* data["waitlist"], data["enrollments"], data["analytics"] all succeed;
\* on any other value the subscript raises KeyError.
HasKeys(v) == {"waitlist", "enrollments", "analytics"} \subseteq DOMAIN v

\* The value no handler holds / no response body.
None == [none |-> TRUE]

\* ------------------------------------------------------------- the models
WaitlistEntry(id, email, name, type, created_at) ==
    [id |-> id, email |-> email, name |-> name, type |-> type,
     created_at |-> created_at, status |-> "pending"]

Enrollment(id, name, email, track, experience, newsletter, scholarship_info, created_at) ==
    [id |-> id, name |-> name, email |-> email, track |-> track,
     experience |-> experience, newsletter |-> newsletter,
     scholarship_info |-> scholarship_info, created_at |-> created_at,
     status |-> "pending"]

\* ---------------------------------------------------------------- helpers
\* Filter with the comparison turned around: keeps the entries with the id.
RECURSIVE FilterInverted(_, _)
FilterInverted(seq, id) ==
    IF seq = <<>> THEN <<>>
    ELSE IF Head(seq).id = id THEN <<Head(seq)>> \o FilterInverted(Tail(seq), id)
         ELSE FilterInverted(Tail(seq), id)

RECURSIVE Filter(_, _)
\* [x for x in seq if x["id"] != id]
Filter(seq, id) ==
    IF seq = <<>> THEN <<>>
    ELSE IF Head(seq).id # id THEN <<Head(seq)>> \o Filter(Tail(seq), id)
         ELSE Filter(Tail(seq), id)

\* EmailExists with the check left out.
EmailExistsSkipped(waitlist, email) == FALSE

\* [entry for entry in data["waitlist"] if entry["email"] == email] is not empty
EmailExists(waitlist, email) ==
    \E i \in 1..Len(waitlist) : waitlist[i].email = email

\* ---------------------------------------------- what handlers do to data
\* PageView without line 129: last_updated is not refreshed.
PageViewStale(d, now) == [d EXCEPT !.analytics.page_views = @ + 1]

\* read_index, lines 128-129
PageView(d, now) ==
    [d EXCEPT !.analytics.page_views = @ + 1, !.analytics.last_updated = now]

\* AppendWaitlist that puts the new entry before the existing ones.
AppendWaitlistFront(d, entry, now) ==
    LET wl == <<entry>> \o d.waitlist
    IN  [d EXCEPT !.waitlist = wl,
                  !.analytics.waitlist_count = Len(wl),
                  !.analytics.last_updated = now]

\* join_waitlist, lines 186-188
AppendWaitlist(d, entry, now) ==
    LET wl == Append(d.waitlist, entry)
    IN  [d EXCEPT !.waitlist = wl,
                  !.analytics.waitlist_count = Len(wl),
                  !.analytics.last_updated = now]

\* AppendEnrollment that stores the new length in the counter of the waitlist.
AppendEnrollmentWrongCounter(d, enrollment, now) ==
    LET el == Append(d.enrollments, enrollment)
    IN  [d EXCEPT !.enrollments = el,
                  !.analytics.waitlist_count = Len(el),
                  !.analytics.last_updated = now]

\* submit_enrollment, lines 219-221
AppendEnrollment(d, enrollment, now) ==
    LET el == Append(d.enrollments, enrollment)
    IN  [d EXCEPT !.enrollments = el,
                  !.analytics.enrollment_count = Len(el),
                  !.analytics.last_updated = now]

\* RemoveWaitlist without line 274: the count is not recomputed.
RemoveWaitlistStaleCount(d, entry_id, now) ==
    [d EXCEPT !.waitlist = Filter(d.waitlist, entry_id),
              !.analytics.last_updated = now]

\* delete_waitlist_entry, lines 273-275
RemoveWaitlist(d, entry_id, now) ==
    LET wl == Filter(d.waitlist, entry_id)
    IN  [d EXCEPT !.waitlist = wl,
                  !.analytics.waitlist_count = Len(wl),
                  !.analytics.last_updated = now]

\* delete_enrollment, lines 285-287
RemoveEnrollment(d, enrollment_id, now) ==
    LET el == Filter(d.enrollments, enrollment_id)
    IN  [d EXCEPT !.enrollments = el,
                  !.analytics.enrollment_count = Len(el),
                  !.analytics.last_updated = now]

\* simulate_data, lines 315-320
AppendSamples(d, sample_waitlist, sample_enrollment, now) ==
    LET wl == Append(d.waitlist, sample_waitlist)
        el == Append(d.enrollments, sample_enrollment)
    IN  [d EXCEPT !.waitlist = wl,
                  !.enrollments = el,
                  !.analytics.waitlist_count = Len(wl),
                  !.analytics.enrollment_count = Len(el),
                  !.analytics.last_updated = now]

VARIABLES
    file,         \* the content of data.json
    clock,        \* what datetime.now() returns
    nextId,       \* the next uuid4 value
    diskOk,       \* writes to data.json succeed
    rq,           \* per slot: the request
    pc,           \* per slot: "idle", "pending", "loaded" or "done"
    data,         \* per slot: the handler's local variable data
    res,          \* per slot: the response
    wfail,        \* per slot: a write_db call of this request failed
    base,         \* the file when the batch in flight was submitted
    writes        \* successful writes to data.json since the batch was submitted

vars == <<file, clock, nextId, diskOk, rq, pc, data, res, wfail, base, writes>>

\* ------------------------------------------------------------- file access
\* with open(DB_FILE, 'w') as f: json.dump(data, f, indent=2)
\* The outcomes of one write: it succeeds, or it raises with the file left as
\* it was (open failed), truncated (open succeeded), or partly written.  A
\* write keeps the permissions of the file: what is written to a file the
\* process may not read stays out of its sight.
WriteFile(f, d, ok) ==
    IF ok THEN {[file |-> IF f.kind = "unreadable" THEN f ELSE Json(d), ok |-> TRUE]}
    ELSE {[file |-> g, ok |-> FALSE] : g \in {f, Empty, Garbage}}

\* init_db that returns the skeleton without writing it (as lines 98-107 do).
init_db_NotPersisted(f, now, ok) ==
    IF f.kind \in {"missing", "empty", "garbage"}
    THEN {[file |-> f, data |-> EmptyDocument(now), raised |-> FALSE, wrote |-> FALSE]}
    ELSE {[file |-> f, data |-> f.value, raised |-> FALSE, wrote |-> FALSE]}

\* init_db(): the document and the file after the call, or raised.
init_db(f, now, ok) ==
    CASE f.kind = "missing" ->
            \* lines 56-69; a failed write is caught at line 96
            {[file |-> w.file, data |-> EmptyDocument(now), raised |-> FALSE,
              wrote |-> w.ok] : w \in WriteFile(f, EmptyDocument(now), ok)}
      [] f.kind \in {"empty", "garbage"} ->
            \* lines 72-74 / 77, then the handler at lines 80-95; a failed
            \* write there leaves init_db as an exception
            {[file |-> w.file, data |-> IF w.ok THEN EmptyDocument(now) ELSE None,
              raised |-> ~w.ok, wrote |-> w.ok]
                : w \in WriteFile(f, EmptyDocument(now), ok)}
      [] f.kind = "unreadable" ->
            \* line 76 raises PermissionError, caught at line 96: the skeleton
            \* is returned and nothing is written
            {[file |-> f, data |-> EmptyDocument(now), raised |-> FALSE, wrote |-> FALSE]}
      [] OTHER ->
            \* lines 76-78: whatever json.load returns
            {[file |-> f, data |-> f.value, raised |-> FALSE, wrote |-> FALSE]}

read_db(f, now, ok) == init_db(f, now, ok)

\* write_db(data): the exception of a failed write is printed and dropped.
write_db(f, d, ok) == WriteFile(f, d, ok)

\* ---------------------------------------------------------------- requests
\* A boolean form field is sent as "true" or "false", or is not sent.
NoRequest == [op |-> "none", email |-> "-", name |-> "-", id |-> 0, newsletter |-> "omitted"]

Req(op) == [op |-> op, email |-> "-", name |-> "-", id |-> 0, newsletter |-> "omitted"]

\* FormBool that takes a field that was not sent for false.
FormBoolDefaultFalse(v, default) == v = "true"

\* bool = Form(default): the default when the field was not sent.
FormBool(v, default) == IF v = "omitted" THEN default ELSE v = "true"

Requests ==
    {[Req("join_waitlist") EXCEPT !.email = i[1], !.name = i[2]] : i \in JoinInputs}
    \cup {[Req("submit_enrollment") EXCEPT !.email = "a@x.com", !.name = "Sam", !.newsletter = b]
            : b \in {"omitted", "false"}}
    \cup {[Req("delete_waitlist_entry") EXCEPT !.id = i] : i \in Ids}
    \cup {[Req("delete_enrollment") EXCEPT !.id = i] : i \in Ids}
    \cup {Req(o) : o \in {"read_index", "get_stats", "get_waitlist", "get_enrollments",
                          "simulate_data", "reset_database"}}

\* The requests sent twice in a row.
RepeatedRequests ==
    {r \in Requests : r.op \in {"get_stats", "delete_waitlist_entry", "delete_enrollment"}}

\* The requests sent two at a time.
ConcurrentRequests ==
    {r \in Requests : \/ r.op \in {"read_index", "reset_database", "simulate_data"}
                      \/ r.op = "delete_waitlist_entry" /\ r.id = 1
                      \/ r.op = "join_waitlist" /\ r.name = "A"}

PageViews(f) == IF f.kind = "json" /\ HasKeys(f.value) THEN f.value.analytics.page_views ELSE 0

\* ------------------------------------------------------------- responses
Response(code, id, body) == [code |-> code, id |-> id, body |-> body]

\* ---------------------------------------------------------------- Init
Init ==
    /\ file \in {Missing, Empty, Garbage}
    /\ clock = 0
    /\ nextId = 1
    /\ diskOk = TRUE
    /\ rq = [s \in Slots |-> NoRequest]
    /\ pc = [s \in Slots |-> "idle"]
    /\ data = [s \in Slots |-> None]
    /\ res = [s \in Slots |-> None]
    /\ wfail = [s \in Slots |-> FALSE]
    /\ base = file
    /\ writes = 0

\* ------------------------------------------------------------- scheduling
\* The bounds: a request that draws uuid4 values is sent only while fewer than
\* MaxIds were drawn, a page view only while page_views is below MaxViews.
Fits(r) ==
    /\ r.op \in {"join_waitlist", "submit_enrollment", "simulate_data"} => nextId <= MaxIds
    /\ r.op = "read_index" => PageViews(file) < MaxViews

\* MayRun for handlers that run in a thread pool ("def" instead of "async def").
MayRunInThreads(s) == TRUE

\* The event loop: a handler is a coroutine without an await, so once it has
\* started no other handler runs until it has returned.
MayRun(s) == \A t \in Slots \ {s} : pc[t] # "loaded"

\* A client sends one request.
Submit ==
    /\ \A s \in Slots : pc[s] = "idle"
    /\ \E r \in Requests :
        /\ Fits(r)
        /\ rq' = [rq EXCEPT !["r1"] = r]
        /\ pc' = [pc EXCEPT !["r1"] = "pending"]
    /\ UNCHANGED <<file, clock, nextId, diskOk, data, res, wfail, base, writes>>

\* A client sends the same request twice in a row.
SubmitTwice ==
    /\ \A s \in Slots : pc[s] = "idle"
    /\ \E r \in RepeatedRequests :
        /\ Fits(r)
        /\ rq' = [s \in Slots |-> r]
        /\ pc' = [s \in Slots |-> "pending"]
    /\ UNCHANGED <<file, clock, nextId, diskOk, data, res, wfail, base, writes>>

\* Two clients send a request each at the same time.
SubmitPair ==
    /\ \A s \in Slots : pc[s] = "idle"
    /\ \E b \in [Slots -> ConcurrentRequests] :
        /\ \A s \in Slots : Fits(b[s])
        /\ rq' = b
        /\ pc' = [s \in Slots |-> "pending"]
    /\ UNCHANGED <<file, clock, nextId, diskOk, data, res, wfail, base, writes>>

\* The responses have been delivered.
Retire ==
    /\ \E s \in Slots : pc[s] = "done"
    /\ \A s \in Slots : pc[s] \in {"idle", "done"}
    /\ rq' = [s \in Slots |-> NoRequest]
    /\ pc' = [s \in Slots |-> "idle"]
    /\ data' = [s \in Slots |-> None]
    /\ res' = [s \in Slots |-> None]
    /\ wfail' = [s \in Slots |-> FALSE]
    /\ base' = file
    /\ writes' = 0
    /\ UNCHANGED <<file, clock, nextId, diskOk>>

\* Time passes, between the runs of handlers.
Tick ==
    /\ \A s \in Slots : pc[s] # "loaded"
    /\ clock < MaxClock
    /\ clock' = clock + 1
    /\ UNCHANGED <<file, nextId, diskOk, rq, pc, data, res, wfail, base, writes>>

\* ------------------------------------------------------- handler plumbing
\* The response of a handler whose body raised: "except Exception" of the
\* handler (lines 193, 226, 238, 256, 265, 278, 290, 325, 345); read_index
\* catches FileNotFoundError only, so the server answers 500.
OnException(op, now) ==
    CASE op = "get_stats" ->
            Response(200, 0, [analytics |-> EmptyDocument(now).analytics,
                              waitlist_count |-> 0, enrollment_count |-> 0])
      [] op = "get_waitlist" -> Response(200, 0, [waitlist |-> <<>>])
      [] op = "get_enrollments" -> Response(200, 0, [enrollments |-> <<>>])
      [] OTHER -> Response(500, 0, None)

\* return: the response is set and the local data is gone.
Return(s, r) ==
    /\ res' = [res EXCEPT ![s] = r]
    /\ pc' = [pc EXCEPT ![s] = "done"]
    /\ data' = [data EXCEPT ![s] = None]

\* write_db(d) called by the handler in slot s.
Save(s, d) ==
    \E w \in write_db(file, d, diskOk) :
        /\ file' = w.file
        /\ wfail' = [wfail EXCEPT ![s] = @ \/ ~w.ok]
        /\ writes' = writes + (IF w.ok THEN 1 ELSE 0)

NoSave == UNCHANGED <<file, wfail, writes>>

\* data = read_db(), the first statement of every handler but reset_database
\* (read_index: after static/index.html has been read).
Load(s) ==
    /\ pc[s] = "pending"
    /\ MayRun(s)
    /\ rq[s].op # "reset_database"
    /\ \E o \in read_db(file, clock, diskOk) :
        /\ file' = o.file
        /\ writes' = writes + (IF o.wrote THEN 1 ELSE 0)
        /\ IF o.raised
           THEN Return(s, OnException(rq[s].op, clock))
           ELSE /\ data' = [data EXCEPT ![s] = o.data]
                /\ pc' = [pc EXCEPT ![s] = "loaded"]
                /\ UNCHANGED res
    /\ UNCHANGED <<clock, nextId, diskOk, rq, wfail, base>>

\* The handler in slot s is past its read_db call.
Loaded(s, op) == pc[s] = "loaded" /\ rq[s].op = op

\* ------------------------------------------------------------- handlers
\* GET /
read_index(s) ==
    /\ rq[s].op = "read_index"
    /\ \/ /\ pc[s] = "pending"      \* open("static/index.html") raises FileNotFoundError
          /\ MayRun(s)
          /\ Return(s, Response(200, 0, [page |-> "fallback"]))
          /\ NoSave
       \/ /\ pc[s] = "loaded"
          /\ IF HasKeys(data[s])
             THEN /\ Save(s, PageView(data[s], clock))
                  /\ Return(s, Response(200, 0, [page |-> "index.html"]))
             ELSE /\ NoSave
                  /\ Return(s, OnException("read_index", clock))
    /\ UNCHANGED <<clock, nextId, diskOk, rq, base>>

\* POST /api/waitlist
join_waitlist(s) ==
    /\ Loaded(s, "join_waitlist")
    /\ IF ~HasKeys(data[s])
       THEN /\ NoSave
            /\ Return(s, OnException("join_waitlist", clock))
            /\ UNCHANGED nextId
       ELSE IF EmailExists(data[s].waitlist, rq[s].email)
       THEN /\ NoSave
            /\ Return(s, Response(400, 0, [message |-> "Email already registered"]))
            /\ UNCHANGED nextId
       ELSE LET entry == WaitlistEntry(nextId, rq[s].email, rq[s].name, "waitlist", clock)
            IN  /\ Save(s, AppendWaitlist(data[s], entry, clock))
                /\ Return(s, Response(200, entry.id, None))
                /\ nextId' = nextId + 1
    /\ UNCHANGED <<clock, diskOk, rq, base>>

\* POST /api/enroll
submit_enrollment(s) ==
    /\ Loaded(s, "submit_enrollment")
    /\ IF ~HasKeys(data[s])
       THEN /\ NoSave
            /\ Return(s, OnException("submit_enrollment", clock))
            /\ UNCHANGED nextId
       ELSE LET enrollment == Enrollment(nextId, rq[s].name, rq[s].email, "Math", "Beginner",
                                         FormBool(rq[s].newsletter, TRUE),
                                         FormBool("omitted", TRUE), clock)
            IN  /\ Save(s, AppendEnrollment(data[s], enrollment, clock))
                /\ Return(s, Response(200, enrollment.id, None))
                /\ nextId' = nextId + 1
    /\ UNCHANGED <<clock, diskOk, rq, base>>

\* get_stats that records a view event, as read_index does.
get_stats_CountsView(s) ==
    /\ Loaded(s, "get_stats")
    /\ IF HasKeys(data[s])
       THEN /\ Save(s, PageView(data[s], clock))
            /\ Return(s, Response(200, 0, [analytics |-> data[s].analytics,
                                           waitlist_count |-> Len(data[s].waitlist),
                                           enrollment_count |-> Len(data[s].enrollments)]))
       ELSE /\ NoSave
            /\ Return(s, OnException("get_stats", clock))
    /\ UNCHANGED <<clock, nextId, diskOk, rq, base>>

\* GET /api/stats
get_stats(s) ==
    /\ Loaded(s, "get_stats")
    /\ IF HasKeys(data[s])
       THEN Return(s, Response(200, 0, [analytics |-> data[s].analytics,
                                        waitlist_count |-> Len(data[s].waitlist),
                                        enrollment_count |-> Len(data[s].enrollments)]))
       ELSE Return(s, OnException("get_stats", clock))
    /\ NoSave
    /\ UNCHANGED <<clock, nextId, diskOk, rq, base>>

\* GET /api/waitlist
get_waitlist(s) ==
    /\ Loaded(s, "get_waitlist")
    /\ IF HasKeys(data[s])
       THEN Return(s, Response(200, 0, [waitlist |-> data[s].waitlist]))
       ELSE Return(s, OnException("get_waitlist", clock))
    /\ NoSave
    /\ UNCHANGED <<clock, nextId, diskOk, rq, base>>

\* GET /api/enrollments
get_enrollments(s) ==
    /\ Loaded(s, "get_enrollments")
    /\ IF HasKeys(data[s])
       THEN Return(s, Response(200, 0, [enrollments |-> data[s].enrollments]))
       ELSE Return(s, OnException("get_enrollments", clock))
    /\ NoSave
    /\ UNCHANGED <<clock, nextId, diskOk, rq, base>>

\* DELETE /api/waitlist/{entry_id}
delete_waitlist_entry(s) ==
    /\ Loaded(s, "delete_waitlist_entry")
    /\ IF ~HasKeys(data[s])
       THEN /\ NoSave
            /\ Return(s, OnException("delete_waitlist_entry", clock))
       ELSE /\ Save(s, RemoveWaitlist(data[s], rq[s].id, clock))
            /\ Return(s, Response(200, 0, [message |-> "Waitlist entry deleted successfully"]))
    /\ UNCHANGED <<clock, nextId, diskOk, rq, base>>

\* DELETE /api/enrollments/{enrollment_id}
delete_enrollment(s) ==
    /\ Loaded(s, "delete_enrollment")
    /\ IF ~HasKeys(data[s])
       THEN /\ NoSave
            /\ Return(s, OnException("delete_enrollment", clock))
       ELSE /\ Save(s, RemoveEnrollment(data[s], rq[s].id, clock))
            /\ Return(s, Response(200, 0, [message |-> "Enrollment deleted successfully"]))
    /\ UNCHANGED <<clock, nextId, diskOk, rq, base>>

\* POST /api/simulate-data
simulate_data(s) ==
    /\ Loaded(s, "simulate_data")
    /\ IF ~HasKeys(data[s])
       THEN /\ NoSave
            /\ Return(s, OnException("simulate_data", clock))
            /\ UNCHANGED nextId
       ELSE LET sample_waitlist == WaitlistEntry(nextId, "student@school.edu",
                                                 "Sample Student", "waitlist", clock)
                sample_enrollment == Enrollment(nextId + 1, "Sample Teacher",
                                                "teacher@school.edu", "Mathematics",
                                                "Expert", TRUE, TRUE, clock)
            IN  /\ Save(s, AppendSamples(data[s], sample_waitlist, sample_enrollment, clock))
                /\ Return(s, Response(200, 0, [message |-> "Sample data added successfully"]))
                /\ nextId' = nextId + 2
    /\ UNCHANGED <<clock, diskOk, rq, base>>

\* GET /reset-db
reset_database(s) ==
    /\ rq[s].op = "reset_database"
    /\ \/ /\ pc[s] = "pending"      \* if os.path.exists(DB_FILE): os.remove(DB_FILE)
          /\ MayRun(s)
          /\ file' = Missing
          /\ pc' = [pc EXCEPT ![s] = "loaded"]
          /\ UNCHANGED <<data, res, wfail, writes>>
       \/ /\ pc[s] = "loaded"       \* init_db()
          /\ \E o \in init_db(file, clock, diskOk) :
                /\ file' = o.file
                /\ writes' = writes + (IF o.wrote THEN 1 ELSE 0)
                /\ UNCHANGED wfail
                /\ Return(s, IF o.raised THEN OnException("reset_database", clock)
                             ELSE Response(200, 0, [message |-> "Database reset successfully"]))
    /\ UNCHANGED <<clock, nextId, diskOk, rq, base>>

\* ------------------------------------------------------------ environment
\* The disk starts or stops refusing writes to data.json.
DiskFault ==
    /\ diskOk' = ~diskOk
    /\ UNCHANGED <<file, clock, nextId, rq, pc, data, res, wfail, base, writes>>

\* ----------------------------------------------------------- specifications
Handle ==
    \/ Retire
    \/ Tick
    \/ \E s \in Slots :
        \/ Load(s)
        \/ read_index(s)
        \/ join_waitlist(s)
        \/ submit_enrollment(s)
        \/ get_stats(s)
        \/ get_waitlist(s)
        \/ get_enrollments(s)
        \/ delete_waitlist_entry(s)
        \/ delete_enrollment(s)
        \/ simulate_data(s)
        \/ reset_database(s)

Next == Submit \/ Handle

\* The service on a working disk, data.json written by the service only, one
\* request at a time.
Spec == Init /\ [][Next]_vars

NextTwice == Submit \/ SubmitTwice \/ Handle

\* The same, and clients may repeat a request.
SpecTwice == Init /\ [][NextTwice]_vars

NextPair ==
    \/ SubmitPair
    \/ Retire
    \/ Tick
    \/ \E s \in Slots :
        \/ Load(s)
        \/ read_index(s)
        \/ join_waitlist(s)
        \/ delete_waitlist_entry(s)
        \/ simulate_data(s)
        \/ reset_database(s)

\* The same with two requests in flight at a time.
SpecPair == Init /\ [][NextPair]_vars

\* data.json may also hold JSON that is no Document or be unreadable, and
\* writes may fail.
InitEnv ==
    /\ file \in {Missing, Empty, Garbage, Unreadable, Json(BadShape)}
    /\ clock = 0
    /\ nextId = 1
    /\ diskOk = TRUE
    /\ rq = [s \in Slots |-> NoRequest]
    /\ pc = [s \in Slots |-> "idle"]
    /\ data = [s \in Slots |-> None]
    /\ res = [s \in Slots |-> None]
    /\ wfail = [s \in Slots |-> FALSE]
    /\ base = file
    /\ writes = 0

NextEnv == Next \/ DiskFault

SpecEnv == InitEnv /\ [][NextEnv]_vars

\* ------------------------------------------------------------ properties
IsDoc(f) == f.kind = "json" /\ HasKeys(f.value)
WaitlistOf(f) == IF IsDoc(f) THEN f.value.waitlist ELSE <<>>
EnrollmentsOf(f) == IF IsDoc(f) THEN f.value.enrollments ELSE <<>>
WaitlistCount(f) == IF IsDoc(f) THEN f.value.analytics.waitlist_count ELSE 0
EnrollmentCount(f) == IF IsDoc(f) THEN f.value.analytics.enrollment_count ELSE 0
IdsIn(seq) == {seq[i].id : i \in 1..Len(seq)}
EmailsIn(seq) == {seq[i].email : i \in 1..Len(seq)}
NeedsRepair(f) == f.kind \in {"missing", "empty", "garbage"}
AllDone == \A s \in Slots : pc[s] = "done"

\* C1: no two entries of the persisted waitlist have the same email, after any
\* sequence of RecordWaitlist, DeleteWaitlistEntry, SeedSample, RecordPageView
\* and ResetStore.
C1_WaitlistEmailsUnique ==
    \A i, j \in 1..Len(WaitlistOf(file)) :
        i # j => WaitlistOf(file)[i].email # WaitlistOf(file)[j].email

\* C2: a join_waitlist whose email equals that of an entry of the persisted
\* waitlist is answered 400 "Email already registered" and the file is what
\* it was before the request.
C2_DuplicateEmailRejected ==
    \A s \in Slots :
        (/\ pc[s] = "done"
         /\ rq[s].op = "join_waitlist"
         /\ \E i \in 1..Len(WaitlistOf(base)) : WaitlistOf(base)[i].email = rq[s].email)
        => /\ res[s].code = 400
           /\ file = base

\* A second join with the email of an entry and another name was answered 400.
C2_Witness ==
    /\ pc["r1"] = "done"
    /\ rq["r1"].op = "join_waitlist"
    /\ res["r1"].code = 400
    /\ file = base
    /\ \E i \in 1..Len(WaitlistOf(file)) :
        /\ WaitlistOf(file)[i].email = rq["r1"].email
        /\ WaitlistOf(file)[i].name # rq["r1"].name

\* C3: in the persisted document waitlist_count is the number of waitlist
\* entries and enrollment_count the number of enrollments.
C3_CountersMatchLengths ==
    IsDoc(file) =>
        /\ file.value.analytics.waitlist_count = Len(file.value.waitlist)
        /\ file.value.analytics.enrollment_count = Len(file.value.enrollments)

\* A delete has removed a waitlist entry while an enrollment is stored.
C3_Witness ==
    /\ pc["r1"] = "done"
    /\ rq["r1"].op = "delete_waitlist_entry"
    /\ IsDoc(file)
    /\ Len(WaitlistOf(base)) = Len(WaitlistOf(file)) + 1
    /\ Len(EnrollmentsOf(file)) >= 1

\* Two join_waitlist requests in flight together, with different emails that
\* the waitlist did not hold when they were sent, have both been answered.
ConcurrentJoinsDone ==
    /\ AllDone
    /\ \A s \in Slots : rq[s].op = "join_waitlist"
    /\ rq["r1"].email # rq["r2"].email
    /\ \A s \in Slots : rq[s].email \notin EmailsIn(WaitlistOf(base))

\* C4: two concurrent join_waitlist requests with distinct new emails both
\* succeed; the persisted waitlist is the one from before followed by the two
\* new entries, and waitlist_count has grown by two.
C4_ConcurrentJoinsKept ==
    ConcurrentJoinsDone =>
        /\ \A s \in Slots : res[s].code = 200
        /\ IsDoc(file)
        /\ Len(WaitlistOf(file)) = Len(WaitlistOf(base)) + 2
        /\ SubSeq(WaitlistOf(file), 1, Len(WaitlistOf(base))) = WaitlistOf(base)
        /\ \A s \in Slots :
            \E i \in Len(WaitlistOf(base)) + 1 .. Len(WaitlistOf(file)) :
                /\ WaitlistOf(file)[i].email = rq[s].email
                /\ WaitlistOf(file)[i].id = res[s].id
        /\ WaitlistCount(file) = WaitlistCount(base) + 2

\* Both joins were answered and the waitlist held an entry before.
C4_Witness ==
    /\ ConcurrentJoinsDone
    /\ Len(WaitlistOf(base)) >= 1
    /\ \A s \in Slots : res[s].code = 200

\* C5: a mutating request whose write_db call failed is not answered with
\* success, and the file is the one from before the request.
C5_SaveFailureReported ==
    \A s \in Slots :
        (pc[s] = "done" /\ wfail[s]) => (res[s].code = 500 /\ file = base)

\* The response of get_stats for document d.
StatsOf(d) ==
    [analytics |-> d.analytics, waitlist_count |-> Len(d.waitlist),
     enrollment_count |-> Len(d.enrollments)]

\* The requests in flight are Loads (get_stats) of a file that was missing,
\* empty or not parseable when they were sent.
LoadsOfBrokenFile ==
    /\ NeedsRepair(base)
    /\ \E s \in Slots : rq[s].op = "get_stats"
    /\ \A s \in Slots : rq[s].op \in {"get_stats", "none"}

\* C6: Load of a missing, empty or unparseable file returns the empty document
\* and writes it; a Load right after it returns the same document, with the
\* same last_updated, and writes nothing.
C6_RepairIdempotent ==
    LoadsOfBrokenFile =>
        \A s \in Slots :
            pc[s] = "done" =>
                /\ writes = 1
                /\ res[s].code = 200
                /\ \E t \in Clock :
                    /\ file = Json(EmptyDocument(t))
                    /\ res[s].body = StatsOf(EmptyDocument(t))

\* Two Loads in a row were answered, the second after the clock had advanced.
C6_Witness ==
    /\ LoadsOfBrokenFile
    /\ AllDone
    /\ res["r1"] = res["r2"]
    /\ clock = 1
    /\ file = Json(EmptyDocument(0))

\* A value with the shape of the Document schema.
IsDocument(v) ==
    /\ DOMAIN v = {"waitlist", "enrollments", "analytics"}
    /\ DOMAIN v.analytics = {"page_views", "waitlist_count", "enrollment_count", "last_updated"}

\* C7: what read_db returns to a handler is a Document, whatever data.json
\* holds.
C7_LoadReturnsDocument ==
    \A s \in Slots :
        (pc[s] = "loaded" /\ rq[s].op # "reset_database") => IsDocument(data[s])

\* The collection a delete request names.
Named(f, op) == IF op = "delete_waitlist_entry" THEN WaitlistOf(f) ELSE EnrollmentsOf(f)
NamedCount(f, op) == IF op = "delete_waitlist_entry" THEN WaitlistCount(f) ELSE EnrollmentCount(f)

\* The requests in flight are one delete, sent once or twice in a row, of an id
\* that the named collection did not hold when they were sent.
DeletesOfAbsentId(s) ==
    /\ rq[s].op \in {"delete_waitlist_entry", "delete_enrollment"}
    /\ \A t \in Slots : rq[t] \in {rq[s], NoRequest}
    /\ rq[s].id \notin IdsIn(Named(base, rq[s].op))

\* C8: a delete of an id that no entry of the named collection has is answered
\* with success and leaves the collection and its count as they were, the
\* first time and the second time in a row.
C8_DeleteAbsentIsNoOp ==
    \A s \in Slots :
        DeletesOfAbsentId(s) =>
            /\ Named(file, rq[s].op) = Named(base, rq[s].op)
            /\ NamedCount(file, rq[s].op) = NamedCount(base, rq[s].op)
            /\ pc[s] = "done" => res[s].code = 200

\* The same delete of an absent id was answered twice in a row, on a
\* collection that holds an entry.
C8_Witness ==
    /\ AllDone
    /\ DeletesOfAbsentId("r1")
    /\ rq["r2"] = rq["r1"]
    /\ Len(Named(base, rq["r1"].op)) >= 1
    /\ \A s \in Slots : res[s].code = 200

\* C9: when GET / has been answered with a page, whatever the page,
\* page_views is one more than before the request.
C9_PageViewCounted ==
    \A s \in Slots :
        (pc[s] = "done" /\ rq[s].op = "read_index" /\ res[s].code = 200
            /\ \A t \in Slots \ {s} : pc[t] = "idle")
        => PageViews(file) = PageViews(base) + 1

\* The same for the answers that carry static/index.html only.
IndexPageViewCounted ==
    \A s \in Slots :
        (pc[s] = "done" /\ rq[s].op = "read_index" /\ res[s].code = 200
            /\ res[s].body.page = "index.html"
            /\ \A t \in Slots \ {s} : pc[t] = "idle")
        => PageViews(file) = PageViews(base) + 1

\* The step of read_index in slot s that answers the request.
ReadIndexAnswers(s) ==
    rq[s].op = "read_index" /\ pc[s] # "done" /\ pc'[s] = "done" /\ res'[s].code = 200

\* What read_index does on a working disk: when it answers with
\* static/index.html, the file holds the document read with page_views one
\* greater and last_updated set to the time of the request; when it answers
\* with the fallback page (index.html is missing) the file is not touched.
ReadIndexEffect ==
    [][\A s \in Slots :
        ReadIndexAnswers(s) =>
            /\ res'[s].body.page = "index.html" =>
                /\ file' = Json([data[s] EXCEPT !.analytics.page_views = @ + 1,
                                                !.analytics.last_updated = clock])
                /\ PageViews(file') = PageViews(base) + 1
            /\ res'[s].body.page = "fallback" => file' = file]_vars

\* The view event of slot s: GET / was answered with static/index.html.
ViewServed(s) ==
    pc[s] = "done" /\ rq[s].op = "read_index" /\ res[s].code = 200
        /\ res[s].body.page = "index.html"

\* C10: two concurrent view events raise page_views by two; a view event
\* concurrent with a join_waitlist or a delete_waitlist_entry raises it by one
\* and the entry is added, or removed, as well.
C10_ConcurrentViewsCounted ==
    /\ (\A s \in Slots : ViewServed(s)) => PageViews(file) = PageViews(base) + 2
    /\ \A s, t \in Slots :
        (ViewServed(s) /\ pc[t] = "done" /\ rq[t].op = "join_waitlist" /\ res[t].code = 200)
        => /\ PageViews(file) = PageViews(base) + 1
           /\ Len(WaitlistOf(file)) = Len(WaitlistOf(base)) + 1
           /\ WaitlistOf(file)[Len(WaitlistOf(file))].email = rq[t].email
           /\ WaitlistOf(file)[Len(WaitlistOf(file))].id = res[t].id
    /\ \A s, t \in Slots :
        (ViewServed(s) /\ pc[t] = "done" /\ rq[t].op = "delete_waitlist_entry")
        => /\ PageViews(file) = PageViews(base) + 1
           /\ rq[t].id \notin IdsIn(WaitlistOf(file))
           /\ Len(WaitlistOf(file)) =
                Cardinality({i \in 1..Len(WaitlistOf(base)) : WaitlistOf(base)[i].id # rq[t].id})

\* Two concurrent view events on a stored document were both answered.
C10_Witness ==
    /\ \A s \in Slots : ViewServed(s)
    /\ IsDoc(base)
    /\ PageViews(file) = PageViews(base) + 2

\* ------------------------------------------------------------------- C11
\* What Load hands to a cycle that runs alone on file f at time now.
SerialLoad(f, now) == IF NeedsRepair(f) THEN EmptyDocument(now) ELSE f.value

\* The file after the cycle of request r has run alone, from its first
\* statement to its last, on file f at time now, drawing ids from id on;
\* fallback: GET / did not find static/index.html.
SerialApply(r, fallback, f, now, id) ==
    LET d == SerialLoad(f, now)
    IN  CASE r.op = "read_index" ->
                IF fallback THEN f ELSE Json(PageView(d, now))
          [] r.op = "join_waitlist" ->
                IF EmailExists(d.waitlist, r.email) THEN Json(d)
                ELSE Json(AppendWaitlist(d, WaitlistEntry(id, r.email, r.name, "waitlist", now), now))
          [] r.op = "delete_waitlist_entry" -> Json(RemoveWaitlist(d, r.id, now))
          [] r.op = "simulate_data" ->
                Json(AppendSamples(d,
                        WaitlistEntry(id, "student@school.edu", "Sample Student", "waitlist", now),
                        Enrollment(id + 1, "Sample Teacher", "teacher@school.edu", "Mathematics",
                                   "Expert", TRUE, TRUE, now),
                        now))
          [] r.op = "reset_database" -> Json(EmptyDocument(now))
          [] OTHER -> Json(d)

\* GET / in slot s was answered with the fallback page.
Fallback(s) == rq[s].op = "read_index" /\ res[s].body.page = "fallback"

\* The file is what the requests of slots s and t leave when the cycle of s
\* runs to its end before the cycle of t starts.
SerialOutcome(s, t) ==
    \E c1, c2 \in Clock, n1, n2 \in 1..nextId :
        /\ c1 <= c2
        /\ file = SerialApply(rq[t], Fallback(t),
                              SerialApply(rq[s], Fallback(s), base, c1, n1), c2, n2)

\* C11: at no time two handlers are between their read_db and their write_db,
\* and when two requests sent at the same time have both been answered the
\* file is what running them one after the other, in one of the two orders,
\* leaves.
C11_CyclesSerial ==
    /\ \A s, t \in Slots : (pc[s] = "loaded" /\ pc[t] = "loaded") => s = t
    /\ AllDone => \E s, t \in Slots : s # t /\ SerialOutcome(s, t)

\* A reset and a join, sent at the same time to a store that holds an entry,
\* were both answered; the reset ran first, so the file holds the new entry only.
C11_Witness ==
    /\ AllDone
    /\ rq["r1"].op = "reset_database"
    /\ rq["r2"].op = "join_waitlist"
    /\ Len(WaitlistOf(base)) >= 1
    /\ Len(WaitlistOf(file)) = 1
    /\ WaitlistOf(file)[1].id = res["r2"].id
    /\ SerialOutcome("r1", "r2")
    /\ ~SerialOutcome("r2", "r1")

\* ------------------------------------------------------------------- C12
\* C12: read_db never raises: whatever data.json is (missing, empty, not
\* parseable, unreadable) and whether or not the disk takes the repair write,
\* the handler that called it goes on with the value read_db returned.
C12_LoadNeverRaises ==
    [][\A s \in Slots : Load(s) => pc'[s] = "loaded"]_vars

\* read_db of a file the process may not read returns the skeleton, on a
\* disk that takes writes or not.
UnreadableLoadsAsSkeleton ==
    [][\A s \in Slots :
        (Load(s) /\ file.kind = "unreadable")
        => pc'[s] = "loaded" /\ data'[s] = EmptyDocument(clock) /\ file' = file]_vars

\* ------------------------------------------------------------------- C13
LastUpdated(f) == f.value.analytics.last_updated

\* The step that ends a completed insert, delete, seed or view event of slot s:
\* the handler goes from its read_db to its answer, and the answer is success.
Completes(s) ==
    /\ rq[s].op \in {"join_waitlist", "submit_enrollment", "delete_waitlist_entry",
                     "delete_enrollment", "simulate_data", "read_index"}
    /\ pc[s] = "loaded"
    /\ pc'[s] = "done"
    /\ res'[s].code = 200

\* C13: no step lowers the last_updated of the persisted document, no request
\* (a reset included) leaves it lower than it was when the request was sent,
\* and the step that completes an insert, a delete, a seed or a view event
\* leaves it at the time of that step.
C13_LastUpdatedMonotone ==
    [][/\ (IsDoc(file) /\ IsDoc(file')) => LastUpdated(file') >= LastUpdated(file)
       /\ \A s \in Slots :
            (pc'[s] = "done" /\ IsDoc(base) /\ IsDoc(file'))
            => LastUpdated(file') >= LastUpdated(base)
       /\ \A s \in Slots :
            Completes(s) => IsDoc(file') /\ LastUpdated(file') = clock]_vars

\* A view event was recorded after the clock had advanced past the stored
\* last_updated.
C13_Witness ==
    /\ ViewServed("r1")
    /\ IsDoc(base)
    /\ IsDoc(file)
    /\ LastUpdated(base) < LastUpdated(file)
    /\ LastUpdated(file) = clock

\* ------------------------------------------------------------------- C14
\* GET /api/stats in slot s was answered, and data.json held a document when
\* it was sent.
StatsAnswered(s) == pc[s] = "done" /\ rq[s].op = "get_stats" /\ IsDoc(base)

\* C14: the answer of get_stats on a stored document carries the stored
\* analytics, the number of waitlist entries and the number of enrollments,
\* and the file is what it was before the request: page_views, the
\* collections, the counters and last_updated are unchanged.
C14_StatsReadOnly ==
    \A s \in Slots :
        StatsAnswered(s) =>
            /\ res[s].code = 200
            /\ res[s].body.analytics = base.value.analytics
            /\ res[s].body.waitlist_count = Len(base.value.waitlist)
            /\ res[s].body.enrollment_count = Len(base.value.enrollments)
            /\ file = base
            /\ writes = 0

\* Stats was answered on a store with more waitlist entries than enrollments,
\* after the clock had passed the stored last_updated.
C14_Witness ==
    /\ StatsAnswered("r1")
    /\ Len(WaitlistOf(base)) > Len(EnrollmentsOf(base))
    /\ Len(EnrollmentsOf(base)) >= 1
    /\ LastUpdated(base) < clock

\* ------------------------------------------------------------------- C15
\* GET /reset-db in slot s was answered with success.
ResetCompleted(s) == pc[s] = "done" /\ rq[s].op = "reset_database" /\ res[s].code = 200

\* C15: when reset_database has been answered, whatever data.json was before
\* (a document with entries, empty, not parseable, or missing), the file holds
\* the empty document: no waitlist entries, no enrollments, page_views,
\* waitlist_count and enrollment_count zero.
C15_ResetYieldsEmptyDocument ==
    \A s \in Slots :
        ResetCompleted(s) =>
            /\ IsDoc(file)
            /\ file.value.waitlist = <<>>
            /\ file.value.enrollments = <<>>
            /\ file.value.analytics.page_views = 0
            /\ file.value.analytics.waitlist_count = 0
            /\ file.value.analytics.enrollment_count = 0
            /\ \E t \in Clock : file = Json(EmptyDocument(t))

\* A reset was answered on a store that held entries and a page view.
C15_Witness ==
    /\ ResetCompleted("r1")
    /\ Len(WaitlistOf(base)) >= 1
    /\ Len(EnrollmentsOf(base)) >= 1
    /\ PageViews(base) >= 1
    /\ file = Json(EmptyDocument(clock))
    /\ LastUpdated(base) < clock

\* A reset was answered on a file that was not parseable, and on one that was
\* missing.
ResetOfGarbage == ResetCompleted("r1") /\ base = Garbage
ResetOfMissing == ResetCompleted("r1") /\ base = Missing

\* ------------------------------------------------------------------- C16
\* The entries of a sequence, as a set.
Entries(seq) == {seq[i] : i \in 1..Len(seq)}

\* This step is the handler of slot s deleting id from the collection that op
\* names, or a reset removing data.json.
DeletesOrResets(s, op, id) ==
    \/ Loaded(s, op) /\ rq[s].id = id /\ pc'[s] = "done"
    \/ rq[s].op = "reset_database" /\ pc[s] = "pending" /\ pc'[s] = "loaded"

\* C16: an entry of the persisted waitlist, or of the persisted enrollments,
\* is in the same collection with the same fields after every step that is
\* neither a delete of its id from that collection nor a reset.
C16_EntriesPersist ==
    [][/\ \A e \in Entries(WaitlistOf(file)) :
            \/ e \in Entries(WaitlistOf(file'))
            \/ \E s \in Slots : DeletesOrResets(s, "delete_waitlist_entry", e.id)
       /\ \A e \in Entries(EnrollmentsOf(file)) :
            \/ e \in Entries(EnrollmentsOf(file'))
            \/ \E s \in Slots : DeletesOrResets(s, "delete_enrollment", e.id)]_vars

\* ------------------------------------------------------------------- C17
\* The entries of seq whose id is not id, in the order of seq.
Without(seq, id) == SelectSeq(seq, LAMBDA e : e.id # id)

\* seq is in the order of insertion: ids are drawn in increasing order, and
\* the times of creation do not decrease.
InInsertionOrder(seq) ==
    \A i, j \in 1..Len(seq) :
        i < j => seq[i].id < seq[j].id /\ seq[i].created_at <= seq[j].created_at

\* Request op in slot s was answered with success.
Answered(s, op) == pc[s] = "done" /\ rq[s].op = op /\ res[s].code = 200

\* C17: an answered delete leaves the named collection as it was without the
\* entries that have the given id, in the same order, and leaves the other
\* collection alone; an answered insert leaves the collection as it was
\* followed by the new entry; get_waitlist and get_enrollments answer with the
\* stored collection, which is in the order of insertion.
C17_DeleteAndOrder ==
    \A s \in Slots :
        /\ Answered(s, "delete_waitlist_entry") =>
            /\ WaitlistOf(file) = Without(WaitlistOf(base), rq[s].id)
            /\ EnrollmentsOf(file) = EnrollmentsOf(base)
        /\ Answered(s, "delete_enrollment") =>
            /\ EnrollmentsOf(file) = Without(EnrollmentsOf(base), rq[s].id)
            /\ WaitlistOf(file) = WaitlistOf(base)
        /\ Answered(s, "join_waitlist") =>
            /\ Len(WaitlistOf(file)) = Len(WaitlistOf(base)) + 1
            /\ SubSeq(WaitlistOf(file), 1, Len(WaitlistOf(base))) = WaitlistOf(base)
            /\ WaitlistOf(file)[Len(WaitlistOf(file))].id = res[s].id
        /\ Answered(s, "submit_enrollment") =>
            /\ Len(EnrollmentsOf(file)) = Len(EnrollmentsOf(base)) + 1
            /\ SubSeq(EnrollmentsOf(file), 1, Len(EnrollmentsOf(base))) = EnrollmentsOf(base)
            /\ EnrollmentsOf(file)[Len(EnrollmentsOf(file))].id = res[s].id
        /\ Answered(s, "get_waitlist") =>
            /\ res[s].body.waitlist = WaitlistOf(base)
            /\ InInsertionOrder(res[s].body.waitlist)
        /\ Answered(s, "get_enrollments") =>
            /\ res[s].body.enrollments = EnrollmentsOf(base)
            /\ InInsertionOrder(res[s].body.enrollments)

\* A delete of the first of two waitlist entries was answered: the second is
\* what is left.
C17_Witness ==
    /\ Answered("r1", "delete_waitlist_entry")
    /\ Len(WaitlistOf(base)) = 2
    /\ rq["r1"].id = WaitlistOf(base)[1].id
    /\ WaitlistOf(file) = <<WaitlistOf(base)[2]>>

\* get_waitlist was answered with two entries.
ListOfTwo == Answered("r1", "get_waitlist") /\ Len(res["r1"].body.waitlist) = 2

\* ------------------------------------------------------------------- C18
\* POST /api/enroll in slot s was answered.
EnrollAnswered(s) == pc[s] = "done" /\ rq[s].op = "submit_enrollment"

\* C18: submit_enrollment is answered with success whatever the stored
\* enrollments and waitlist hold; the stored enrollments are the ones from
\* before followed by one new enrollment with the fields of the request,
\* newsletter and scholarship_info true when the request left them out,
\* status "pending"; enrollment_count is one more than before.
C18_EnrollmentAlwaysAppended ==
    \A s \in Slots :
        EnrollAnswered(s) =>
            /\ res[s].code = 200
            /\ IsDoc(file)
            /\ Len(EnrollmentsOf(file)) = Len(EnrollmentsOf(base)) + 1
            /\ SubSeq(EnrollmentsOf(file), 1, Len(EnrollmentsOf(base))) = EnrollmentsOf(base)
            /\ LET e == EnrollmentsOf(file)[Len(EnrollmentsOf(file))]
               IN  /\ e.id = res[s].id
                   /\ e.name = rq[s].name
                   /\ e.email = rq[s].email
                   /\ e.newsletter = (rq[s].newsletter # "false")
                   /\ e.scholarship_info = TRUE
                   /\ e.status = "pending"
            /\ EnrollmentCount(file) = EnrollmentCount(base) + 1
            /\ EnrollmentCount(file) = Len(EnrollmentsOf(file))

\* An enrollment that left out the two flags was answered while an enrollment
\* with the same email was stored.
C18_Witness ==
    /\ EnrollAnswered("r1")
    /\ res["r1"].code = 200
    /\ rq["r1"].newsletter = "omitted"
    /\ rq["r1"].email \in EmailsIn(EnrollmentsOf(base))
    /\ Len(EnrollmentsOf(file)) = 2
    /\ EnrollmentsOf(file)[2].newsletter

\* An enrollment was answered while a waitlist entry with its email was stored.
EnrollWithWaitlistedEmail ==
    /\ EnrollAnswered("r1")
    /\ res["r1"].code = 200
    /\ rq["r1"].email \in EmailsIn(WaitlistOf(base))

\* ------------------------------------------------------------------- C19
\* What a request on the waitlist must leave alone, and what a request on the
\* enrollments must leave alone.
EnrollmentSideKept ==
    /\ EnrollmentsOf(file) = EnrollmentsOf(base)
    /\ EnrollmentCount(file) = EnrollmentCount(base)
    /\ PageViews(file) = PageViews(base)

WaitlistSideKept ==
    /\ WaitlistOf(file) = WaitlistOf(base)
    /\ WaitlistCount(file) = WaitlistCount(base)
    /\ PageViews(file) = PageViews(base)

\* C19: an answered join_waitlist or delete_waitlist_entry leaves the
\* enrollments, enrollment_count and page_views as they were; an answered
\* submit_enrollment or delete_enrollment leaves the waitlist, waitlist_count
\* and page_views as they were; an answered GET / leaves both collections and
\* both counts as they were.
C19_Frame ==
    \A s \in Slots :
        pc[s] = "done" =>
            /\ rq[s].op \in {"join_waitlist", "delete_waitlist_entry"} => EnrollmentSideKept
            /\ rq[s].op \in {"submit_enrollment", "delete_enrollment"} => WaitlistSideKept
            /\ rq[s].op = "read_index" =>
                /\ WaitlistOf(file) = WaitlistOf(base)
                /\ EnrollmentsOf(file) = EnrollmentsOf(base)
                /\ WaitlistCount(file) = WaitlistCount(base)
                /\ EnrollmentCount(file) = EnrollmentCount(base)

\* A delete removed an enrollment from a store that holds a waitlist entry
\* and a page view.
C19_Witness ==
    /\ Answered("r1", "delete_enrollment")
    /\ Len(EnrollmentsOf(file)) < Len(EnrollmentsOf(base))
    /\ Len(WaitlistOf(file)) >= 1
    /\ PageViews(file) >= 1
    /\ WaitlistSideKept

\* A view event was recorded on a store that holds entries of both kinds.
ViewOnFilledStore ==
    /\ ViewServed("r1")
    /\ Len(WaitlistOf(base)) >= 1
    /\ Len(EnrollmentsOf(base)) >= 1
    /\ PageViews(file) = PageViews(base) + 1

====
